---- MODULE Spec2Model ----
(***************************************************************************)
(* ParkFasto backend: the session / occupancy state machine of             *)
(* src/src/controller/parking.controller.js.                               *)
(*                                                                         *)
(* Every request handler is an async function; each `await` on a database  *)
(* call is a point where other requests may run.  A handler is therefore   *)
(* modelled as a sequence of steps, one per database operation: a step is  *)
(* the (atomic) database operation together with the synchronous code that *)
(* follows it up to the next `await`.  The handler's local variables live  *)
(* in proc[p].                                                             *)
(*                                                                         *)
(* Units: time is counted in ticks of half an hour (HourTicks ticks per    *)
(* hour), the value 0 stands for an absent / unset time or amount (it is   *)
(* falsy in the source as well), and the clock starts at 1.  The `slots`   *)
(* field of a request body is carried in halves (3 stands for 1.5) so that *)
(* Number.isInteger has something to reject.                               *)
(***************************************************************************)
EXTENDS Integers, Sequences, FiniteSets, TLC

\* ---------------------------------------------------------------- bounds
MaxSpots    == 2      \* capacity of the larger lot
MaxRequests == 3      \* requests issued when requests may overlap
MaxSerial   == 3      \* requests issued when they run one at a time
MaxLifecycle == 4     \* requests issued in the restricted one-at-a-time runs
MaxTime     == 2      \* last tick of the clock
MaxSync     == 4      \* syncLotStatus calls made in the runs of bare calls
MaxBilling  == 4      \* requests issued in the billing runs
MaxBillTime == 4      \* last tick of the clock in the billing runs

\* ------------------------------------------------------------- universe
Users  == {"u1", "u2"}
Lots   == {"L1", "L2"}            \* lot documents that exist
LotIds == Lots \cup {"LX"}        \* ids a request may carry; LX has no document
Procs  == {1, 2}                  \* requests that may be in flight together
SerialProc == CHOOSE p \in Procs : \A q \in Procs : p <= q

HourTicks == 2                    \* 1000 * 60 * 60 ms, in ticks

VARIABLES
  sessions,       \* ParkingSession collection, in creation order (_id = index)
  lots,           \* ParkingLot collection: id -> document
  notifications,  \* Notification collection, in creation order
  proc,           \* per request slot: position and local variables of the handler
  now,            \* wall clock (new Date())
  issued,         \* number of requests received so far
  overlap,        \* history: lots whose occupiedSpots was incremented while
                  \* another syncLotStatus call still had its status write pending
  pre             \* history: database and request at the start of the current
                  \* request, kept by the one-at-a-time specifications (in
                  \* SpecSync: the occupancy the calls made so far add up to)

vars == <<sessions, lots, notifications, proc, now, issued, overlap, pre>>
db   == <<sessions, lots, notifications>>

\* ------------------------------------------------------------ pure code
Max(a, b) == IF a >= b THEN a ELSE b

\* Math.ceil(a / b) for b > 0
Ceil(a, b) == IF a >= 0 THEN (a + b - 1) \div b ELSE -((-a) \div b)

\* faulty variant: the comparison made strict
resolveLotStatus_Strict(occupiedSpots, totalSpots) ==
  IF occupiedSpots > totalSpots THEN "full" ELSE "available"

resolveLotStatus(occupiedSpots, totalSpots) ==
  IF occupiedSpots >= totalSpots THEN "full" ELSE "available"

\* faulty variant: the duration rounded down
totalAmount_Floor(startTime, endTime, pricePerHour) ==
  Max(1, (endTime - startTime) \div HourTicks) * pricePerHour

\* durationHours * pricePerHour of guardExit / completeSession
totalAmount(startTime, endTime, pricePerHour) ==
  Max(1, Ceil(endTime - startTime, HourTicks)) * pricePerHour

\* faulty variant: one slot is released whatever the session holds
slotsToRelease_One(session) == 1

\* Math.max(1, Number(session.slots) || 1)
slotsToRelease(session) ==
  Max(1, IF session.slots = 0 THEN 1 ELSE session.slots)

\* const { slots = 1 } = req.body; Number(slots)   (in halves)
requestedSlots(slots) == IF slots = <<>> THEN 2 ELSE slots[1]

\* faulty variant: zero slots pass the validation
ValidSlots_AllowZero(h) == h % 2 = 0 /\ h >= 0

\* Number.isInteger(requestedSlots) && requestedSlots >= 1   (in halves)
ValidSlots(h) == h % 2 = 0 /\ h >= 2

\* lot.totalSpots - (lot.occupiedSpots || 0)
available(lot) == lot.totalSpots - lot.occupiedSpots

\* faulty variant: the capacity check off by one
HasCapacity_OffByOne(lot, h) == ~(2 * (available(lot) + 1) < h)

\* available < requestedSlots is the rejection   (h in halves)
HasCapacity(lot, h) == ~(2 * available(lot) < h)

\* ------------------------------------------------------------- queries
\* ParkingSession.findOne({user, parkingLot, status: "booked"}).sort({createdAt: -1})
\* faulty variant: the query forgets the parkingLot filter
BookedOf_AnyLot(u, l) ==
  {i \in DOMAIN sessions : sessions[i].user = u /\ sessions[i].status = "booked"}

BookedOf(u, l) ==
  {i \in DOMAIN sessions :
     sessions[i].user = u /\ sessions[i].lot = l /\ sessions[i].status = "booked"}

\* faulty variant: sorted by createdAt ascending, the oldest comes first
SetMax_Oldest(S) == CHOOSE x \in S : \A y \in S : x <= y

SetMax(S) == CHOOSE x \in S : \A y \in S : y <= x

LatestBooked(u, l) == IF BookedOf(u, l) = {} THEN 0 ELSE SetMax(BookedOf(u, l))

\* ParkingSession.findOne({user, parkingLot, status: "active"}): any match
ActiveAt(u, l) ==
  {i \in DOMAIN sessions :
     sessions[i].user = u /\ sessions[i].lot = l /\ sessions[i].status = "active"}

\* ParkingSession.findOne({user, status: "active"}): any match
ActiveOf(u) ==
  {i \in DOMAIN sessions : sessions[i].user = u /\ sessions[i].status = "active"}

\* ParkingSession.findOne({_id: bookingId, user, status: "booked"})
Cancelable(u, bookingId) ==
  {i \in DOMAIN sessions :
     i = bookingId /\ sessions[i].user = u /\ sessions[i].status = "booked"}

\* --------------------------------------------------------- request slots
Idle ==
  [pc |-> "idle", op |-> "none", user |-> "none", lot |-> "none", sid |-> 0,
   status |-> "none", slots |-> 0, t |-> 0, t2 |-> 0, amount |-> 0,
   delta |-> 0, newStatus |-> "none", code |-> 0]

\* res.status(c).json(...): the handler is over, its locals are gone
Done(c) == [Idle EXCEPT !.pc = "done", !.code = c]

Free(p) == proc[p].pc \in {"idle", "done"}

Quiescent == \A p \in Procs : Free(p)

\* ParkingSession schema defaults (status, slots) of ParkingSession.model
DefaultStatus == "active"
DefaultSlots  == 1

\* ------------------------------------------------------------ handlers
\* guardEntry, up to the first write
guardEntry(p, u, l) ==
  /\ Free(p)
  /\ LET s == LatestBooked(u, l) IN
       /\ proc' = [proc EXCEPT ![p] =
            IF s = 0
            THEN [Idle EXCEPT !.pc = "create", !.op = "guardEntry", !.user = u,
                              !.lot = l, !.status = "active", !.slots = DefaultSlots,
                              !.t = now, !.delta = 1]
            ELSE [Idle EXCEPT !.pc = "save", !.op = "guardEntry", !.user = u,
                              !.lot = l, !.sid = s, !.status = "active", !.t = now]]
  /\ UNCHANGED <<sessions, lots, notifications, now, overlap>>

\* the settlement both guardExit and completeSession compute for session s
Settle(p, op, u, s) ==
  LET session == sessions[s] IN
    IF session.lot \notin Lots
    THEN \* populate("parkingLot") gave null: reading pricePerHour throws
         proc' = [proc EXCEPT ![p] = Done(500)]
    ELSE proc' = [proc EXCEPT ![p] =
           [Idle EXCEPT !.pc = "save", !.op = op, !.user = u, !.lot = session.lot,
                        !.sid = s, !.status = "completed", !.t = now,
                        !.amount = totalAmount(session.startTime, now,
                                               lots[session.lot].pricePerHour),
                        !.delta = -slotsToRelease(session)]]

\* guardExit, up to the first write
guardExit(p, u, l) ==
  /\ Free(p)
  /\ \/ /\ ActiveAt(u, l) = {}
        /\ proc' = [proc EXCEPT ![p] = Done(404)]
     \/ \E s \in ActiveAt(u, l) : Settle(p, "guardExit", u, s)
  /\ UNCHANGED <<sessions, lots, notifications, now, overlap>>

\* startSession, up to the first write
startSession(p, u, l) ==
  /\ Free(p)
  /\ \/ /\ ActiveOf(u) # {}
        /\ proc' = [proc EXCEPT ![p] = Done(400)]
     \/ /\ ActiveOf(u) = {}
        /\ proc' = [proc EXCEPT ![p] =
             [Idle EXCEPT !.pc = "create", !.op = "startSession", !.user = u,
                          !.lot = l, !.status = DefaultStatus, !.slots = DefaultSlots,
                          !.t = now, !.delta = 1]]
  /\ UNCHANGED <<sessions, lots, notifications, now, overlap>>

\* bookParking, up to the first write.  l = "none" is a body without
\* parkingLotId, startTime / endTime = 0 a body without that field.
bookParking(p, u, l, slots, startTime, endTime) ==
  LET h == requestedSlots(slots) IN
  /\ Free(p)
  /\ IF l = "none" \/ startTime = 0 \/ endTime = 0
     THEN proc' = [proc EXCEPT ![p] = Done(400)]
     ELSE IF ~ValidSlots(h)
     THEN proc' = [proc EXCEPT ![p] = Done(400)]
     ELSE IF l \notin Lots
     THEN proc' = [proc EXCEPT ![p] = Done(404)]
     ELSE IF ~HasCapacity(lots[l], h)
     THEN proc' = [proc EXCEPT ![p] = Done(400)]
     ELSE proc' = [proc EXCEPT ![p] =
            [Idle EXCEPT !.pc = "create", !.op = "bookParking", !.user = u,
                         !.lot = l, !.status = "booked", !.slots = h \div 2,
                         !.t = startTime, !.t2 = endTime, !.delta = h \div 2]]
  /\ UNCHANGED <<sessions, lots, notifications, now, overlap>>

\* cancelBooking, up to the first write
cancelBooking(p, u, bookingId) ==
  /\ Free(p)
  /\ \/ /\ Cancelable(u, bookingId) = {}
        /\ proc' = [proc EXCEPT ![p] = Done(404)]
     \/ \E s \in Cancelable(u, bookingId) :
          proc' = [proc EXCEPT ![p] =
            [Idle EXCEPT !.pc = "save", !.op = "cancelBooking", !.user = u,
                         !.lot = sessions[s].lot, !.sid = s, !.status = "canceled",
                         !.t = now, !.delta = -slotsToRelease(sessions[s])]]
  /\ UNCHANGED <<sessions, lots, notifications, now, overlap>>

\* completeSession, up to the first write
completeSession(p, u) ==
  /\ Free(p)
  /\ \/ /\ ActiveOf(u) = {}
        /\ proc' = [proc EXCEPT ![p] = Done(404)]
     \/ \E s \in ActiveOf(u) : Settle(p, "completeSession", u, s)
  /\ UNCHANGED <<sessions, lots, notifications, now, overlap>>

\* ------------------------------------------------------- database steps
\* faulty variant: bookParking checks the capacity after reserving the slots
AfterSync_LateCheck(r) ==
  IF r.op \in {"guardEntry", "guardExit", "cancelBooking"}
  THEN [r EXCEPT !.pc = "notify"]
  ELSE IF r.op = "completeSession" THEN Done(200)
  ELSE IF r.op = "bookParking" /\ r.lot \in Lots /\ r.delta >= lots[r.lot].totalSpots
  THEN Done(400) ELSE Done(201)

\* where a handler goes once syncLotStatus has returned
AfterSync(r) ==
  IF r.op \in {"guardEntry", "guardExit", "cancelBooking"}
  THEN [r EXCEPT !.pc = "notify"]
  ELSE IF r.op = "completeSession" THEN Done(200)
  ELSE IF r.op = "syncLotStatus" THEN Done(0) ELSE Done(201)

\* ParkingSession.create({...})
CreateSession(p) ==
  LET r == proc[p] IN
  /\ r.pc = "create"
  /\ sessions' = Append(sessions,
       [user |-> r.user, lot |-> r.lot, status |-> r.status, slots |-> r.slots,
        startTime |-> r.t, endTime |-> r.t2, totalAmount |-> 0])
  /\ proc' = [proc EXCEPT ![p] = [r EXCEPT !.pc = "inc", !.sid = Len(sessions) + 1]]
  /\ UNCHANGED <<lots, notifications, now, issued, overlap, pre>>

\* the fields session.save() writes, per handler
Saved(session, r) ==
  IF r.op = "guardEntry"
  THEN [session EXCEPT !.status = r.status, !.startTime = r.t]
  ELSE IF r.op = "cancelBooking"
  THEN [session EXCEPT !.status = r.status, !.endTime = r.t]
  ELSE [session EXCEPT !.status = r.status, !.endTime = r.t, !.totalAmount = r.amount]

\* session.save()
SaveSession(p) ==
  LET r == proc[p] IN
  /\ r.pc = "save"
  /\ sessions' = [sessions EXCEPT ![r.sid] = Saved(@, r)]
  /\ proc' = [proc EXCEPT ![p] =
       IF r.op = "guardEntry" THEN [r EXCEPT !.pc = "notify"]
                              ELSE [r EXCEPT !.pc = "inc"]]
  /\ UNCHANGED <<lots, notifications, now, issued, overlap, pre>>

\* faulty variant: occupiedSpots is read, changed and written back, and the
\* write is lost when another call has changed the lot and not yet finished
IncOccupied_LostUpdate(p) ==
  LET r == proc[p]
      busy == \E q \in Procs \ {p} : proc[q].pc = "status" /\ proc[q].lot = r.lot
  IN
  /\ r.pc = "inc"
  /\ IF r.lot \notin Lots
     THEN /\ proc' = [proc EXCEPT ![p] = AfterSync(r)]
          /\ UNCHANGED <<lots, overlap>>
     ELSE LET updatedLot == [lots[r.lot] EXCEPT !.occupiedSpots =
                               IF busy THEN @ ELSE @ + r.delta]
              newStatus  == resolveLotStatus(updatedLot.occupiedSpots,
                                             updatedLot.totalSpots)
          IN /\ lots' = [lots EXCEPT ![r.lot] = updatedLot]
             /\ proc' = [proc EXCEPT ![p] =
                  IF updatedLot.status # newStatus
                  THEN [r EXCEPT !.pc = "status", !.newStatus = newStatus]
                  ELSE AfterSync(r)]
             /\ overlap' = IF busy THEN overlap \cup {r.lot} ELSE overlap
  /\ UNCHANGED <<sessions, notifications, now, issued, pre>>

\* syncLotStatus: findByIdAndUpdate({$inc: {occupiedSpots: delta}}, {new: true})
\* and the comparison of the returned document's status
IncOccupied(p) ==
  LET r == proc[p] IN
  /\ r.pc = "inc"
  /\ IF r.lot \notin Lots
     THEN /\ proc' = [proc EXCEPT ![p] = AfterSync(r)]
          /\ UNCHANGED <<lots, overlap>>
     ELSE LET updatedLot == [lots[r.lot] EXCEPT !.occupiedSpots = @ + r.delta]
              newStatus  == resolveLotStatus(updatedLot.occupiedSpots,
                                             updatedLot.totalSpots)
          IN /\ lots' = [lots EXCEPT ![r.lot] = updatedLot]
             /\ proc' = [proc EXCEPT ![p] =
                  IF updatedLot.status # newStatus
                  THEN [r EXCEPT !.pc = "status", !.newStatus = newStatus]
                  ELSE AfterSync(r)]
             /\ overlap' =
                  IF \E q \in Procs \ {p} : proc[q].pc = "status" /\ proc[q].lot = r.lot
                  THEN overlap \cup {r.lot} ELSE overlap
  /\ UNCHANGED <<sessions, notifications, now, issued, pre>>

\* syncLotStatus: findByIdAndUpdate(parkingLotId, {status: newStatus})
WriteStatus(p) ==
  LET r == proc[p] IN
  /\ r.pc = "status"
  /\ lots' = [lots EXCEPT ![r.lot].status = r.newStatus]
  /\ proc' = [proc EXCEPT ![p] = AfterSync(r)]
  /\ UNCHANGED <<sessions, notifications, now, issued, overlap, pre>>

\* faulty variant: the types of the two guard notifications exchanged
NotificationType_Exchanged(op) ==
  IF op = "guardEntry" THEN "checkout"
  ELSE IF op = "guardExit" THEN "checkin" ELSE "booking"

NotificationType(op) ==
  IF op = "guardEntry" THEN "checkin"
  ELSE IF op = "guardExit" THEN "checkout" ELSE "booking"

\* Notification.create({...}) and the 200 response
Notify(p) ==
  LET r == proc[p] IN
  /\ r.pc = "notify"
  /\ notifications' = Append(notifications,
       [user |-> r.user, type |-> NotificationType(r.op),
        parkingLot |-> r.lot, session |-> r.sid])
  /\ proc' = [proc EXCEPT ![p] = Done(200)]
  /\ UNCHANGED <<sessions, lots, now, issued, overlap, pre>>

\* Notification.create rejects: catch (error) { next(error) }
NotifyFail(p) ==
  LET r == proc[p] IN
  /\ r.pc = "notify"
  /\ proc' = [proc EXCEPT ![p] = Done(500)]
  /\ UNCHANGED <<sessions, lots, notifications, now, issued, overlap, pre>>

\* time passes
Tick ==
  /\ now < MaxTime
  /\ now' = now + 1
  /\ UNCHANGED <<sessions, lots, notifications, proc, issued, overlap, pre>>

\* ---------------------------------------------------------------- inputs
BookingIds == 1 .. MaxLifecycle

NoRequest ==
  [op |-> "none", user |-> "none", lot |-> "none", slots |-> <<>>,
   startTime |-> 0, endTime |-> 0, bookingId |-> 0]

Init ==
  /\ sessions = <<>>
  /\ lots = [l \in Lots |->
       [totalSpots |-> IF l = "L1" THEN MaxSpots ELSE 1,
        occupiedSpots |-> 0,
        status |-> "available",
        pricePerHour |-> IF l = "L1" THEN 10 ELSE 25]]
  /\ notifications = <<>>
  /\ proc = [p \in Procs |-> Idle]
  /\ now = 1
  /\ issued = 0
  /\ overlap = {}
  /\ pre = [sessions |-> <<>>, lots |-> lots, notifications |-> <<>>,
            req |-> NoRequest]

\* ------------------------------------------- concurrent requests (Spec)
\* Up to MaxRequests requests, two of which may overlap, in every
\* interleaving of their steps.  The second request slot is taken only while
\* the first is busy (the two slots are interchangeable).
Receive(p) ==
  /\ \A q \in Procs : q < p => ~Free(q)
  /\ issued < MaxRequests
  /\ issued' = issued + 1
  /\ UNCHANGED pre

\* request bodies of POST /book: the well-formed ones, and malformed ones of
\* each kind for a known and for an unknown lot
Bodies ==
  {<<l, <<2 * n>>, 1, 2>> : l \in LotIds, n \in 1 .. MaxSpots}
    \cup {<<l, <<>>, 1, 2>> : l \in {"L1"}}
    \cup {<<l, <<h>>, 1, 2>> : l \in {"L1", "LX"}, h \in {0, 3}}
    \cup {<<l, <<2>>, st, 2 - st>> : l \in {"L1", "LX"}, st \in {0, 2}}
    \cup {<<"none", <<2>>, 1, 2>>}

Step == \E p \in Procs :
  \/ CreateSession(p)
  \/ SaveSession(p)
  \/ IncOccupied(p)
  \/ WriteStatus(p)
  \/ Notify(p)
  \/ NotifyFail(p)

ReqGuardEntry == \E p \in Procs, u \in Users, l \in Lots :
  guardEntry(p, u, l) /\ Receive(p)
ReqGuardExit == \E p \in Procs, u \in Users, l \in Lots :
  guardExit(p, u, l) /\ Receive(p)
ReqStartSession == \E p \in Procs, u \in Users, l \in Lots :
  startSession(p, u, l) /\ Receive(p)
ReqBookParking == \E p \in Procs, u \in Users, b \in Bodies :
  bookParking(p, u, b[1], b[2], b[3], b[4]) /\ Receive(p)
ReqCancelBooking == \E p \in Procs, u \in Users, b \in BookingIds :
  cancelBooking(p, u, b) /\ Receive(p)
ReqCompleteSession == \E p \in Procs, u \in Users :
  completeSession(p, u) /\ Receive(p)

Next ==
  \/ ReqGuardEntry
  \/ ReqGuardExit
  \/ ReqStartSession
  \/ ReqBookParking
  \/ ReqCancelBooking
  \/ ReqCompleteSession
  \/ Step

Spec == Init /\ [][Next]_vars

\* ------------------------------------- one request at a time (SpecSerial)
\* A request is received only when no other is in progress, so each request
\* runs from its first step to its response without interference.  `pre`
\* remembers the database and the request at that moment.
Arrive(req, bound) ==
  /\ Quiescent
  /\ issued < bound
  /\ issued' = issued + 1
  /\ pre' = [sessions |-> sessions, lots |-> lots, notifications |-> notifications,
            req |-> req]

SerGuardEntry == \E u \in Users, l \in LotIds :
  /\ guardEntry(SerialProc, u, l)
  /\ Arrive([NoRequest EXCEPT !.op = "guardEntry", !.user = u, !.lot = l], MaxSerial)
SerGuardExit == \E u \in Users, l \in LotIds :
  /\ guardExit(SerialProc, u, l)
  /\ Arrive([NoRequest EXCEPT !.op = "guardExit", !.user = u, !.lot = l], MaxSerial)
SerStartSession == \E u \in Users, l \in LotIds :
  /\ startSession(SerialProc, u, l)
  /\ Arrive([NoRequest EXCEPT !.op = "startSession", !.user = u, !.lot = l], MaxSerial)
SerBookParking == \E u \in Users, b \in Bodies :
  /\ bookParking(SerialProc, u, b[1], b[2], b[3], b[4])
  /\ Arrive([NoRequest EXCEPT !.op = "bookParking", !.user = u, !.lot = b[1],
                              !.slots = b[2], !.startTime = b[3], !.endTime = b[4]],
            MaxSerial)
SerCancelBooking == \E u \in Users, b \in BookingIds :
  /\ cancelBooking(SerialProc, u, b)
  /\ Arrive([NoRequest EXCEPT !.op = "cancelBooking", !.user = u, !.bookingId = b],
            MaxSerial)
SerCompleteSession == \E u \in Users :
  /\ completeSession(SerialProc, u)
  /\ Arrive([NoRequest EXCEPT !.op = "completeSession", !.user = u], MaxSerial)

NextSerial ==
  \/ SerGuardEntry
  \/ SerGuardExit
  \/ SerStartSession
  \/ SerBookParking
  \/ SerCancelBooking
  \/ SerCompleteSession
  \/ Step

SpecSerial == Init /\ [][NextSerial]_vars

\* ------------------------- one at a time, bookings only (SpecBooked)
\* Sessions are created by bookParking alone and move along
\* booked -> active -> completed or booked -> canceled: guardEntry is
\* received only for a pair that has a booking to activate.
BkBookParking == \E u \in Users, b \in Bodies :
  /\ bookParking(SerialProc, u, b[1], b[2], b[3], b[4])
  /\ Arrive([NoRequest EXCEPT !.op = "bookParking", !.user = u, !.lot = b[1],
                              !.slots = b[2], !.startTime = b[3], !.endTime = b[4]],
            MaxLifecycle)
BkGuardEntry == \E u \in Users, l \in Lots :
  /\ BookedOf(u, l) # {}
  /\ guardEntry(SerialProc, u, l)
  /\ Arrive([NoRequest EXCEPT !.op = "guardEntry", !.user = u, !.lot = l], MaxLifecycle)
BkGuardExit == \E u \in Users, l \in Lots :
  /\ guardExit(SerialProc, u, l)
  /\ Arrive([NoRequest EXCEPT !.op = "guardExit", !.user = u, !.lot = l], MaxLifecycle)
BkCancelBooking == \E u \in Users, b \in BookingIds :
  /\ cancelBooking(SerialProc, u, b)
  /\ Arrive([NoRequest EXCEPT !.op = "cancelBooking", !.user = u, !.bookingId = b],
            MaxLifecycle)
BkCompleteSession == \E u \in Users :
  /\ completeSession(SerialProc, u)
  /\ Arrive([NoRequest EXCEPT !.op = "completeSession", !.user = u], MaxLifecycle)

NextBooked ==
  \/ BkBookParking
  \/ BkGuardEntry
  \/ BkGuardExit
  \/ BkCancelBooking
  \/ BkCompleteSession
  \/ Step

SpecBooked == Init /\ [][NextBooked]_vars

\* ------------------- one at a time, no bookings (SpecWalkIn)
\* Sessions are created by startSession and by guard entries without a
\* booking, and are closed by guardExit or completeSession, while time passes.
WiGuardEntry == \E u \in Users, l \in Lots :
  /\ guardEntry(SerialProc, u, l)
  /\ Arrive([NoRequest EXCEPT !.op = "guardEntry", !.user = u, !.lot = l], MaxLifecycle)
WiStartSession == \E u \in Users, l \in Lots :
  /\ startSession(SerialProc, u, l)
  /\ Arrive([NoRequest EXCEPT !.op = "startSession", !.user = u, !.lot = l], MaxLifecycle)
WiGuardExit == \E u \in Users, l \in Lots :
  /\ guardExit(SerialProc, u, l)
  /\ Arrive([NoRequest EXCEPT !.op = "guardExit", !.user = u, !.lot = l], MaxLifecycle)
WiCompleteSession == \E u \in Users :
  /\ completeSession(SerialProc, u)
  /\ Arrive([NoRequest EXCEPT !.op = "completeSession", !.user = u], MaxLifecycle)

NextWalkIn ==
  \/ WiGuardEntry
  \/ WiStartSession
  \/ WiGuardExit
  \/ WiCompleteSession
  \/ Step
  \/ Tick

SpecWalkIn == Init /\ [][NextWalkIn]_vars

\* ------------------------------- two racing bookings (SpecRace)
\* Two POST /book requests, one per request slot, for the same lot, each for
\* all the slots that are free when the race begins (the lot is empty then),
\* in every interleaving of their steps.
RaceBookParking == \E p \in Procs, u \in Users, l \in Lots :
  /\ proc[p].pc = "idle"
  /\ pre.req.lot \in {"none", l}
  /\ bookParking(p, u, l, <<2 * available(pre.lots[l])>>, 1, 2)
  /\ issued' = issued + 1
  /\ pre' = [pre EXCEPT !.req = [NoRequest EXCEPT !.op = "bookParking", !.lot = l]]

\* the database operations of bookParking
RaceStep == \E p \in Procs :
  \/ CreateSession(p)
  \/ IncOccupied(p)
  \/ WriteStatus(p)

NextRace ==
  \/ RaceBookParking
  \/ RaceStep

SpecRace == Init /\ [][NextRace]_vars

\* ------------- one at a time, a booking and its cancellation (SpecRoundTrip)
\* Sessions are started, completed and booked one request at a time; the
\* cancellation of a booking is received directly after that booking was
\* answered 201, by the same user and for the session just created.  `pre`
\* then keeps the database as it was before the booking.
RtCancelBooking ==
  /\ Quiescent
  /\ issued < MaxLifecycle
  /\ pre.req.op = "bookParking"
  /\ proc[SerialProc].code = 201
  /\ cancelBooking(SerialProc, pre.req.user, Len(sessions))
  /\ issued' = issued + 1
  /\ pre' = [pre EXCEPT !.req = [@ EXCEPT !.op = "cancelBooking",
                                         !.bookingId = Len(sessions)]]

NextRoundTrip ==
  \/ WiStartSession
  \/ WiCompleteSession
  \/ BkBookParking
  \/ RtCancelBooking
  \/ Step

SpecRoundTrip == Init /\ [][NextRoundTrip]_vars

\* ------------------- one at a time, sessions billed (SpecBilling)
\* Sessions are started by their user or by a guard and closed by guardExit
\* or completeSession, one request at a time, over a longer stretch of time;
\* the clock advances between requests (a request reads the clock once, in
\* its first step).
GuardedLot == "L1"     \* the lot whose guard sends the guard requests

Billable ==
  /\ Quiescent
  /\ issued < MaxBilling
  /\ issued' = issued + 1
  /\ UNCHANGED pre

BlGuardEntry == \E u \in Users :
  guardEntry(SerialProc, u, GuardedLot) /\ Billable
BlStartSession == \E u \in Users, l \in Lots :
  startSession(SerialProc, u, l) /\ Billable
BlGuardExit == \E u \in Users :
  guardExit(SerialProc, u, GuardedLot) /\ Billable
BlCompleteSession == \E u \in Users :
  completeSession(SerialProc, u) /\ Billable

TickBetweenRequests ==
  /\ Quiescent
  /\ now < MaxBillTime
  /\ now' = now + 1
  /\ UNCHANGED <<sessions, lots, notifications, proc, issued, overlap, pre>>

NextBilling ==
  \/ BlGuardEntry
  \/ BlStartSession
  \/ BlGuardExit
  \/ BlCompleteSession
  \/ Step
  \/ TickBetweenRequests

SpecBilling == Init /\ [][NextBilling]_vars

\* --------------------------- bare syncLotStatus calls (SpecSync)
\* Up to MaxSync calls syncLotStatus(l, d) on existing lots, two of which may
\* overlap, in every interleaving of their two database operations.  Here
\* pre.lots[l].occupiedSpots adds up, from the lot's initial occupiedSpots,
\* the deltas passed to the calls made so far; a release is called only for
\* slots that an earlier call has taken.
SyncDeltas == {d \in -MaxSpots .. MaxSpots : d # 0}

syncLotStatus(p, parkingLotId, occupiedDelta) ==
  /\ Free(p)
  /\ issued < MaxSync
  /\ pre.lots[parkingLotId].occupiedSpots + occupiedDelta >= 0
  /\ proc' = [proc EXCEPT ![p] =
       [Idle EXCEPT !.pc = "inc", !.op = "syncLotStatus", !.lot = parkingLotId,
                    !.delta = occupiedDelta]]
  /\ issued' = issued + 1
  /\ pre' = [pre EXCEPT !.lots[parkingLotId].occupiedSpots = @ + occupiedDelta]
  /\ UNCHANGED <<sessions, lots, notifications, now, overlap>>

SyncCall == \E p \in Procs, l \in Lots, d \in SyncDeltas : syncLotStatus(p, l, d)

\* the database operations of syncLotStatus
SyncStep == \E p \in Procs :
  \/ IncOccupied(p)
  \/ WriteStatus(p)

NextSync ==
  \/ SyncCall
  \/ SyncStep

SpecSync == Init /\ [][NextSync]_vars

\* ================================================================ claims
Terminal == {"completed", "canceled"}

\* C1: when two bookParking requests race for the same lot, each asking for
\* all of its free slots, then once both are answered exactly one got 201
\* (one booked session, the slots reserved once) and the other got 400.
C1_ExactlyOneRacingBookingSucceeds ==
  (issued = 2 /\ Quiescent) =>
    /\ \E p \in Procs :
         proc[p].code = 201 /\ \A q \in Procs \ {p} : proc[q].code = 400
    /\ Len(sessions) = 1
    /\ lots[pre.req.lot].occupiedSpots = lots[pre.req.lot].totalSpots

\* C2: a lot's occupiedSpots never exceeds its totalSpots.
C2_OccupiedWithinTotal ==
  \A l \in Lots : lots[l].occupiedSpots <= lots[l].totalSpots

\* slots of lot l held by the first n sessions: reserved and not yet released
RECURSIVE Reserved(_, _)
Reserved(l, n) ==
  IF n = 0 THEN 0
  ELSE Reserved(l, n - 1) +
       (IF sessions[n].lot = l /\ sessions[n].status \in {"booked", "active"}
        THEN sessions[n].slots ELSE 0)

\* C3: with requests one at a time and sessions created by bookParking only,
\* the net occupancy of a lot (slots reserved minus slots released, from an
\* empty lot) never exceeds its capacity, and once a request is over the
\* lot's occupiedSpots is exactly that net occupancy.
C3_BookedOccupancyWithinCapacity ==
  \A l \in Lots :
    /\ Reserved(l, Len(sessions)) <= lots[l].totalSpots
    /\ lots[l].occupiedSpots <= lots[l].totalSpots
    /\ Quiescent => lots[l].occupiedSpots = Reserved(l, Len(sessions))

\* C3 witness: a lot is full again after slots booked earlier were released.
C3_Witness ==
  \E l \in Lots, i \in DOMAIN sessions, j \in DOMAIN sessions :
    /\ Quiescent
    /\ lots[l].occupiedSpots = lots[l].totalSpots
    /\ sessions[i].lot = l /\ sessions[i].status \in Terminal
    /\ sessions[j].lot = l /\ sessions[j].status = "booked" /\ i < j

StatusInSync(l) ==
  /\ lots[l].status \in {"full", "available"}
  /\ lots[l].status = "full" <=> lots[l].occupiedSpots >= lots[l].totalSpots

\* C4 as stated: whenever no request is in progress, every lot's status is
\* 'full' iff occupiedSpots >= totalSpots, whatever the interleaving was.
C4_StatusInSyncWhenQuiescent ==
  Quiescent => \A l \in Lots : StatusInSync(l)

\* C4 amended: whenever no request is in progress, the status of a lot is
\* 'full' iff occupiedSpots >= totalSpots, provided no syncLotStatus call
\* incremented that lot while another call's status write for it was pending.
C4_StatusInSyncUnlessOverlapped ==
  Quiescent => \A l \in Lots \ overlap : StatusInSync(l)

\* C4 witness: two requests have changed the occupancy of a lot without such
\* an overlap, and it is full and marked full.
C4_Witness ==
  \E l \in Lots \ overlap :
    /\ Quiescent
    /\ lots[l].occupiedSpots = lots[l].totalSpots
    /\ lots[l].status = "full"
    /\ Cardinality({i \in DOMAIN sessions : sessions[i].lot = l}) >= 2

\* C5: once a session is completed or canceled, no step changes its status,
\* endTime or totalAmount.
C5_TerminalSessionsFrozen ==
  [][\A i \in DOMAIN sessions :
       sessions[i].status \in Terminal =>
         /\ sessions'[i].status = sessions[i].status
         /\ sessions'[i].endTime = sessions[i].endTime
         /\ sessions'[i].totalAmount = sessions[i].totalAmount]_vars

\* C6: a completeSession request that directly follows a completeSession
\* request of the same user is answered 404 at once and changes nothing.
C6_SecondCompleteIs404 ==
  [][(/\ issued' = issued + 1
      /\ pre.req.op = "completeSession"
      /\ pre'.req.op = "completeSession"
      /\ pre'.req.user = pre.req.user)
       => (proc'[SerialProc] = Done(404) /\ UNCHANGED db)]_vars

\* C7: no user has more than one active session.
C7_AtMostOneActivePerUser ==
  \A u \in Users : Cardinality(ActiveOf(u)) <= 1

\* the step in which request slot p answers 400 or 404
Rejects(p) ==
  /\ proc'[p].pc = "done"
  /\ proc'[p].code \in {400, 404}
  /\ \/ proc'[p] # proc[p]
     \/ issued' # issued /\ proc' = proc

\* C8: a request answered 400 or 404 is answered in its first step, before
\* any write, and that step leaves sessions, lots and notifications unchanged.
C8_RejectionsChangeNothing ==
  [][\A p \in Procs : Rejects(p) => (Free(p) /\ UNCHANGED db)]_vars

\* C8 witness: a request was answered 400 or 404 while the other request
\* slot was in the middle of its writes and sessions existed.
C8_Witness ==
  \E p \in Procs, q \in Procs :
    /\ proc[p].pc = "done" /\ proc[p].code \in {400, 404}
    /\ proc[q].pc \in {"inc", "status", "notify"}
    /\ sessions # <<>>

\* the POST /book request whose response is in, and what decided it
BookAnswered == proc[SerialProc].pc = "done" /\ pre.req.op = "bookParking"
BookHalves == IF pre.req.slots = <<>> THEN 2 ELSE pre.req.slots[1]
BookPresent == pre.req.lot # "none" /\ pre.req.startTime # 0 /\ pre.req.endTime # 0
BookSlotsOk == BookHalves % 2 = 0 /\ BookHalves >= 2
BookLotKnown == pre.req.lot \in Lots
BookFits ==
  /\ BookLotKnown
  /\ 2 * (pre.lots[pre.req.lot].totalSpots - pre.lots[pre.req.lot].occupiedSpots)
       >= BookHalves
BookOk == BookPresent /\ BookSlotsOk /\ BookLotKnown /\ BookFits

\* 201 exactly when the request is acceptable, and then one booked session
\* with the requested slots is added and the lot's occupiedSpots raised by them
BookSuccess ==
  /\ proc[SerialProc].code = 201 <=> BookOk
  /\ BookOk =>
       /\ Len(sessions) = Len(pre.sessions) + 1
       /\ SubSeq(sessions, 1, Len(pre.sessions)) = pre.sessions
       /\ sessions[Len(sessions)].status = "booked"
       /\ sessions[Len(sessions)].slots = BookHalves \div 2
       /\ sessions[Len(sessions)].user = pre.req.user
       /\ sessions[Len(sessions)].lot = pre.req.lot
       /\ lots[pre.req.lot].occupiedSpots =
            pre.lots[pre.req.lot].occupiedSpots + BookHalves \div 2
       /\ \A l \in Lots \ {pre.req.lot} : lots[l] = pre.lots[l]

\* C9 as stated: run one at a time, bookParking answers 201 exactly when the
\* request is acceptable (with the effects above), and otherwise 404 for an
\* unknown lot and 400 in the other cases.
C9_BookParkingOutcome ==
  BookAnswered =>
    /\ BookSuccess
    /\ ~BookOk =>
         proc[SerialProc].code =
           IF pre.req.lot \notin Lots \cup {"none"} THEN 404 ELSE 400

\* C9 amended: ... and otherwise 404 when the fields are present, the slots
\* valid and the lot unknown, and 400 in the other cases: a request with a
\* missing field or invalid slots is answered 400 even for an unknown lot.
C9_BookParkingOutcomeValidatedFirst ==
  BookAnswered =>
    /\ BookSuccess
    /\ ~BookOk =>
         proc[SerialProc].code =
           IF BookPresent /\ BookSlotsOk /\ ~BookLotKnown THEN 404 ELSE 400

\* C9 witness: a booking of all the free slots of a partly occupied lot
\* was accepted.
C9_Witness ==
  /\ BookAnswered
  /\ BookOk
  /\ pre.lots[pre.req.lot].occupiedSpots > 0
  /\ lots[pre.req.lot].occupiedSpots = lots[pre.req.lot].totalSpots

\* the guard entry whose response is in, and the bookings it found
EntryAnswered == proc[SerialProc].pc = "done" /\ pre.req.op = "guardEntry"
EntryBooked ==
  {i \in DOMAIN pre.sessions :
     /\ pre.sessions[i].user = pre.req.user
     /\ pre.sessions[i].lot = pre.req.lot
     /\ pre.sessions[i].status = "booked"}

\* C10: a guard entry for a (user, lot) with a booked session makes such a
\* session active, creates no session and leaves the lots as they were;
\* without one it adds exactly one active session of 1 slot and raises the
\* lot's occupiedSpots by exactly 1.
C10_GuardEntryEffect ==
  EntryAnswered =>
    IF EntryBooked # {}
    THEN /\ Len(sessions) = Len(pre.sessions)
         /\ \E s \in EntryBooked :
              /\ sessions[s].status = "active"
              /\ \A i \in DOMAIN sessions \ {s} : sessions[i] = pre.sessions[i]
         /\ lots = pre.lots
    ELSE /\ Len(sessions) = Len(pre.sessions) + 1
         /\ SubSeq(sessions, 1, Len(pre.sessions)) = pre.sessions
         /\ sessions[Len(sessions)].status = "active"
         /\ sessions[Len(sessions)].slots = 1
         /\ sessions[Len(sessions)].user = pre.req.user
         /\ sessions[Len(sessions)].lot = pre.req.lot
         /\ \A l \in Lots :
              lots[l].occupiedSpots =
                pre.lots[l].occupiedSpots + (IF l = pre.req.lot THEN 1 ELSE 0)

\* C10 witness: a guard entry activated a booking while the same user held
\* a booking at another lot, which stayed booked.
C10_Witness ==
  /\ EntryAnswered
  /\ EntryBooked # {}
  /\ \E i \in DOMAIN sessions :
       /\ sessions[i].user = pre.req.user
       /\ sessions[i].lot # pre.req.lot
       /\ sessions[i].status = "booked"

\* the booking just answered 201, its lot and slots, and its cancellation
TripLot == pre.req.lot
TripSlots == BookHalves \div 2
TripBooked ==
  /\ pre.req.op = "bookParking"
  /\ proc[SerialProc].pc = "done" /\ proc[SerialProc].code = 201
TripCanceling ==
  /\ pre.req.op = "cancelBooking"
  /\ proc[SerialProc].pc \in {"save", "inc"}
TripCanceled == pre.req.op = "cancelBooking" /\ proc[SerialProc].pc = "done"
TripFills ==
  pre.lots[TripLot].occupiedSpots + TripSlots = pre.lots[TripLot].totalSpots

\* C11: with requests one at a time, once the cancellation that directly
\* follows a successful booking of N slots is over, every lot has the
\* occupiedSpots and status it had before the booking; and when the booking
\* took all the free slots of its lot, the lot's status is 'full' from the
\* booking's response until the cancellation releases the slots, and
\* 'available' afterwards.
C11_BookCancelRoundTrip ==
  /\ TripCanceled =>
       /\ sessions[pre.req.bookingId].status = "canceled"
       /\ \A l \in Lots :
            /\ lots[l].occupiedSpots = pre.lots[l].occupiedSpots
            /\ lots[l].status = pre.lots[l].status
       /\ lots[TripLot].status = "available"
  /\ ((TripBooked \/ TripCanceling) /\ TripFills) =>
       /\ lots[TripLot].occupiedSpots = lots[TripLot].totalSpots
       /\ lots[TripLot].status = "full"

\* C11 witness: a booking of several slots that filled its lot has been
\* canceled while another lot was occupied.
C11_Witness ==
  /\ TripCanceled
  /\ TripFills
  /\ TripSlots >= 2
  /\ \E l \in Lots \ {TripLot} : pre.lots[l].occupiedSpots > 0

\* sessions that were completed, and their elapsed time in ticks
Completed ==
  {i \in DOMAIN sessions :
     /\ sessions[i].status = "completed"
     /\ sessions[i].lot \in Lots
     /\ sessions[i].startTime <= sessions[i].endTime}
Elapsed(i) == sessions[i].endTime - sessions[i].startTime
CheckedOut(i) ==
  \E n \in DOMAIN notifications :
    notifications[n].type = "checkout" /\ notifications[n].session = i

\* C12: the totalAmount stored for a completed session is a whole number h
\* of hours times the lot's pricePerHour, where h = 1 when at most one hour
\* elapsed and otherwise h is the least number of hours covering the elapsed
\* time; so it is at least pricePerHour, and two sessions with the same lot,
\* startTime and endTime were billed the same whichever operation closed them.
C12_BilledHoursTimesRate ==
  /\ \A i \in Completed :
       LET price == lots[sessions[i].lot].pricePerHour IN
         /\ sessions[i].totalAmount >= price
         /\ \E h \in 1 .. MaxBillTime :
              /\ sessions[i].totalAmount = h * price
              /\ Elapsed(i) <= h * HourTicks
              /\ h > 1 => Elapsed(i) > (h - 1) * HourTicks
  /\ \A i \in Completed, j \in Completed :
       (/\ sessions[i].lot = sessions[j].lot
        /\ sessions[i].startTime = sessions[j].startTime
        /\ sessions[i].endTime = sessions[j].endTime)
         => sessions[i].totalAmount = sessions[j].totalAmount

\* C12 witness: two sessions of one lot with the same start and end, more
\* than an hour and not a whole number of hours apart, were completed, one
\* by guardExit and one by completeSession.
C12_Witness ==
  \E i \in Completed, j \in Completed :
    /\ i # j
    /\ sessions[i].lot = sessions[j].lot
    /\ sessions[i].startTime = sessions[j].startTime
    /\ sessions[i].endTime = sessions[j].endTime
    /\ Elapsed(i) > HourTicks /\ Elapsed(i) % HourTicks # 0
    /\ CheckedOut(i) /\ ~CheckedOut(j)
    /\ Quiescent /\ \A p \in Procs : proc[p].code # 500

\* the request whose response is in was one of the three that notify, and it
\* got as far as writing the session
NotifierAnswered ==
  /\ proc[SerialProc].pc = "done"
  /\ pre.req.op \in {"guardEntry", "guardExit", "cancelBooking"}
  /\ sessions # pre.sessions

\* C13: a guardEntry, guardExit or cancelBooking request that has written
\* its session and occupancy update is answered 200, whether or not the
\* notification record could be created.
C13_NotificationFailureStillSucceeds ==
  NotifierAnswered => proc[SerialProc].code = 200

\* the active sessions the request in `pre` could find when it arrived
PreActive ==
  {i \in DOMAIN pre.sessions :
     /\ pre.sessions[i].user = pre.req.user
     /\ pre.sessions[i].status = "active"
     /\ pre.req.op = "guardExit" => pre.sessions[i].lot = pre.req.lot}

\* a request that opens a session at a lot that does not exist
OrphanOpened ==
  /\ proc[SerialProc].pc = "done"
  /\ pre.req.lot \notin Lots
  /\ \/ pre.req.op = "guardEntry"
     \/ pre.req.op = "startSession" /\ PreActive = {}

\* a request that closes a session whose lot does not exist
OrphanClosed ==
  /\ proc[SerialProc].pc = "done"
  /\ pre.req.op \in {"guardExit", "completeSession"}
  /\ PreActive # {}
  /\ \A i \in PreActive : pre.sessions[i].lot \notin Lots

\* C14: a request on a session whose lot does not exist leaves the lots
\* untouched and is carried out all the same: startSession and guardEntry
\* add their active session, guardExit and completeSession complete the
\* session they found, and startSession and completeSession (which write no
\* notification) answer 201 and 200.
C14_MissingLotDoesNotAbort ==
  /\ OrphanOpened =>
       /\ lots = pre.lots
       /\ Len(sessions) = Len(pre.sessions) + 1
       /\ sessions[Len(sessions)].status = "active"
       /\ pre.req.op = "startSession" => proc[SerialProc].code = 201
  /\ OrphanClosed =>
       /\ lots = pre.lots
       /\ \E i \in PreActive : sessions[i].status = "completed"
       /\ pre.req.op = "completeSession" => proc[SerialProc].code = 200

\* the status changes of the session state machine
AllowedTransitions ==
  {<<"booked", "active">>, <<"booked", "canceled">>, <<"active", "completed">>}

\* C15: in every step, under any interleaving, a new session starts as
\* 'booked' or 'active' and an existing session keeps its status or goes
\* booked -> active, booked -> canceled or active -> completed.
C15_OnlyAllowedTransitions ==
  [][\A i \in DOMAIN sessions' :
       IF i \in DOMAIN sessions
       THEN \/ sessions'[i].status = sessions[i].status
            \/ <<sessions[i].status, sessions'[i].status>> \in AllowedTransitions
       ELSE sessions'[i].status \in {"booked", "active"}]_vars

\* C16: a guard entry for a (user, lot) pair that had several booked sessions
\* made the one created last active and left every other session, the older
\* bookings of the pair among them, as it was.
C16_LatestBookingActivated ==
  (EntryAnswered /\ Cardinality(EntryBooked) >= 2) =>
    /\ Len(sessions) = Len(pre.sessions)
    /\ \E s \in EntryBooked :
         /\ \A j \in EntryBooked : j <= s
         /\ sessions[s].status = "active"
         /\ sessions[s].slots = pre.sessions[s].slots
         /\ \A i \in DOMAIN sessions \ {s} : sessions[i] = pre.sessions[i]

\* C16 witness: a guard entry was answered 200 for a pair with two bookings,
\* the older of which is still booked, while another user held a booking.
C16_Witness ==
  /\ EntryAnswered
  /\ proc[SerialProc].code = 200
  /\ Cardinality(EntryBooked) >= 2
  /\ \E i \in EntryBooked : sessions[i].status = "booked"
  /\ \E k \in DOMAIN sessions :
       sessions[k].user # pre.req.user /\ sessions[k].status = "booked"

\* the deltas of the calls on lot l whose $inc has not run yet
RECURSIVE PendingDelta(_, _)
PendingDelta(l, P) ==
  IF P = {} THEN 0
  ELSE LET p == CHOOSE q \in P : TRUE IN
         PendingDelta(l, P \ {p}) +
         (IF proc[p].pc = "inc" /\ proc[p].lot = l THEN proc[p].delta ELSE 0)

\* C17: in every interleaving of syncLotStatus calls, a lot's occupiedSpots
\* is its initial value plus the deltas of all the calls made on it, less
\* the deltas of the calls whose $inc is still to come; so once all calls
\* have finished it is the initial value plus the sum of all the deltas.
C17_NoLostIncrement ==
  \A l \in Lots :
    /\ lots[l].occupiedSpots + PendingDelta(l, Procs) = pre.lots[l].occupiedSpots
    /\ Quiescent => lots[l].occupiedSpots = pre.lots[l].occupiedSpots

\* C17 witness: all calls have finished, among them an increment of a lot
\* that ran while another call's status write for that lot was pending, and
\* that lot is occupied.
C17_Witness ==
  /\ Quiescent
  /\ issued = MaxSync
  /\ \E l \in overlap : lots[l].occupiedSpots > 0

Notifiers == {"guardEntry", "guardExit", "cancelBooking"}

\* the notification n was due for the request in `pre`, whose session write
\* and occupancy update are in the database already
NotificationDue(n) ==
  LET op == pre.req.op IN
  /\ op \in Notifiers
  /\ n.type = (IF op = "guardEntry" THEN "checkin"
               ELSE IF op = "guardExit" THEN "checkout" ELSE "booking")
  /\ n.user = pre.req.user
  /\ n.session \in DOMAIN sessions
  /\ sessions[n.session].user = n.user
  /\ sessions[n.session].lot = n.parkingLot
  /\ op = "cancelBooking" => n.session = pre.req.bookingId
  /\ op # "cancelBooking" => n.parkingLot = pre.req.lot
  /\ sessions # pre.sessions
  /\ sessions[n.session].status =
       (IF op = "guardEntry" THEN "active"
        ELSE IF op = "guardExit" THEN "completed" ELSE "canceled")
  /\ n.parkingLot \in Lots =>
       lots[n.parkingLot].occupiedSpots =
         pre.lots[n.parkingLot].occupiedSpots +
           (IF op # "guardEntry" THEN -pre.sessions[n.session].slots
            ELSE IF n.session \in DOMAIN pre.sessions THEN 0 ELSE 1)

\* C18: with requests one at a time, every step keeps the notifications
\* there are; a step that adds one adds exactly one, of the type, user,
\* session and lot of the guardEntry, guardExit or cancelBooking request in
\* progress, after that request's session write and occupancy update, and
\* answers 200; and a request that is answered has added one notification if
\* it is one of those three answered 200, and none otherwise.
C18_NotificationsAppended ==
  [][/\ Len(notifications') >= Len(notifications)
     /\ SubSeq(notifications', 1, Len(notifications)) = notifications
     /\ notifications' # notifications =>
          /\ Len(notifications') = Len(notifications) + 1
          /\ NotificationDue(notifications'[Len(notifications')])
          /\ proc'[SerialProc] = Done(200)
          /\ sessions' = sessions /\ lots' = lots
     /\ proc'[SerialProc].pc = "done" =>
          IF pre'.req.op \in Notifiers /\ proc'[SerialProc].code = 200
          THEN Len(notifications') = Len(pre'.notifications) + 1
          ELSE notifications' = pre'.notifications]_vars

\* C18 witness: a check-in and the check-out of the same session are on
\* record, and a third request has been answered without adding anything.
C18_Witness ==
  /\ Len(notifications) = 2
  /\ notifications[1].type = "checkin"
  /\ notifications[2].type = "checkout"
  /\ notifications[1].session = notifications[2].session
  /\ issued = 3
  /\ proc[SerialProc].pc = "done"
  /\ pre.notifications = notifications

\* C19: under any interleaving of requests, no lot's occupiedSpots is
\* negative.
C19_OccupiedNonNegative ==
  \A l \in Lots : lots[l].occupiedSpots >= 0

\* C20: under any interleaving of requests, whenever no request is in
\* progress every lot's occupiedSpots is its initial value (0) plus the slots
\* of its sessions that are 'booked' or 'active'.
C20_OccupancyIsSumOfHeldSlots ==
  Quiescent => \A l \in Lots : lots[l].occupiedSpots = Reserved(l, Len(sessions))

====
